---- MODULE Spec2Model ----
(***************************************************************************)
(* A model of api/index.ts: the JSON extractor (extractJSON), the schema   *)
(* normalizer (toNumber, normalizeAnalysis), the model client              *)
(* (callSumopodAPI) and the two request handlers with their candidate      *)
(* fallback loop (POST /api/analyze-image, POST /api/analyze-camera).      *)
(*                                                                         *)
(* Conventions.                                                            *)
(*  - Texts are strings; Len, SubSeq and \o act on them character by       *)
(*    character.  A backquote cannot be written in a string literal, so    *)
(*    the texts write "~" for it: a markdown fence is "~~~".               *)
(*  - A JavaScript value is a record [t, n, s, l, o]: t is its kind, n the *)
(*    number (or 1/0 for a boolean), s the string, l the array elements,   *)
(*    o the object's properties in insertion order.                        *)
(*  - Numbers are counted in halves, so that the default confidence 0.5    *)
(*    is the integer 1 and the number 1 is the integer 2.  NaN, Infinity   *)
(*    and -Infinity are values of their own kind.                          *)
(***************************************************************************)
EXTENDS Integers, Sequences, FiniteSets

VARIABLES
    engine,      \* how this runtime words JSON.parse's SyntaxError
    outcomes,    \* what an attempt comes to, for each answer fetch can get
    endpoint,    \* "analyze-image" or "analyze-camera"
    dataURL,     \* req.body.dataURL ("" when absent)
    env,         \* process.env: the three SUMOPOD_* keys ("" when unset)
    pc,          \* where the handler is
    candidates,  \* the handler's candidates array
    ci,          \* index of the candidate the for-of loop is at
    attempt,     \* the inner loop's attempt counter
    lastErr,     \* the handler's lastErr
    calls,       \* every callSumopodAPI invocation so far, with its outcome
    response,    \* what res.status(..).json(..) sent
    text,        \* extractJSON's argument
    extracted,   \* extractJSON's outcome
    raw,         \* normalizeAnalysis's argument
    normalized,  \* normalizeAnalysis's outcome
    phase        \* "input" before a function is applied, "output" after

reqVars == <<outcomes, endpoint, dataURL, env, pc, candidates, ci, attempt, lastErr, calls, response>>
funVars == <<text, extracted, raw, normalized, phase>>
vars == <<engine, outcomes, endpoint, dataURL, env, pc, candidates, ci, attempt, lastErr,
          calls, response, text, extracted, raw, normalized, phase>>

----------------------------------------------------------------------------
(* JavaScript values *)

JUndefined == [t |-> "undefined", n |-> 0, s |-> "", l |-> <<>>, o |-> <<>>]
JNull == [t |-> "null", n |-> 0, s |-> "", l |-> <<>>, o |-> <<>>]
JNaN == [t |-> "NaN", n |-> 0, s |-> "", l |-> <<>>, o |-> <<>>]
JInfinity == [t |-> "Infinity", n |-> 0, s |-> "", l |-> <<>>, o |-> <<>>]
JNegInfinity == [t |-> "-Infinity", n |-> 0, s |-> "", l |-> <<>>, o |-> <<>>]
JBool(b) == [t |-> "boolean", n |-> IF b THEN 1 ELSE 0, s |-> "", l |-> <<>>, o |-> <<>>]
JNum(h) == [t |-> "number", n |-> h, s |-> "", l |-> <<>>, o |-> <<>>]
JStr(str) == [t |-> "string", n |-> 0, s |-> str, l |-> <<>>, o |-> <<>>]
JArr(elems) == [t |-> "array", n |-> 0, s |-> "", l |-> elems, o |-> <<>>]
JObj(props) == [t |-> "object", n |-> 0, s |-> "", l |-> <<>>, o |-> props]
P(key, val) == [k |-> key, v |-> val]

\* typeof v === 'number'
IsNumberType(v) == v.t \in {"number", "NaN", "Infinity", "-Infinity"}
\* Number.isFinite(v)
IsFinite(v) == v.t = "number"
\* Array.isArray(v)
IsArray(v) == v.t = "array"
IsNullish(v) == v.t \in {"undefined", "null"}

\* The value a thrown TypeError leaves in place of a property read.
JThrown == [t |-> "thrown", n |-> 0, s |-> "", l |-> <<>>, o |-> <<>>]

RECURSIVE Lookup(_, _, _)
Lookup(props, key, i) ==
    IF i = 0 THEN JUndefined
    ELSE IF props[i].k = key THEN props[i].v
    ELSE Lookup(props, key, i - 1)

\* v.key: a TypeError on undefined and null, the property (the last one of that
\* name) on an object, undefined on anything else.
Get(v, key) ==
    IF v.t = "thrown" \/ IsNullish(v) THEN JThrown
    ELSE IF v.t = "object" THEN Lookup(v.o, key, Len(v.o))
    ELSE JUndefined

\* v?.key
OptGet(v, key) == IF IsNullish(v) THEN JUndefined ELSE Get(v, key)

----------------------------------------------------------------------------
(* Texts *)

Ch(str, i) == IF 1 <= i /\ i <= Len(str) THEN SubSeq(str, i, i) ELSE ""
Sub(str, i, j) == IF i > j THEN "" ELSE SubSeq(str, i, j)
StartsAt(str, i, pat) == i + Len(pat) - 1 <= Len(str) /\ Sub(str, i, i + Len(pat) - 1) = pat

WhiteSpace == {" ", "\n", "\t"}
DigitChars == {"0", "1", "2", "3", "4", "5", "6", "7", "8", "9"}
UpperCase == "ABCDEFGHIJKLMNOPQRSTUVWXYZ"
LowerCase == "abcdefghijklmnopqrstuvwxyz"
Digits == "0123456789"

\* The least and the greatest of a set of positions, none when it is empty
LeastOr(S, none) == IF S = {} THEN none ELSE CHOOSE x \in S : \A y \in S : x <= y
GreatestOr(S, none) == IF S = {} THEN none ELSE CHOOSE x \in S : \A y \in S : y <= x

\* The first position from i on where pat starts; 0 when there is none.
IndexIn(str, pat, i) == LeastOr({k \in i..Len(str) : StartsAt(str, k, pat)}, 0)

LowerAt(c, u) == IF c # "" /\ u # 0 THEN Ch(LowerCase, u) ELSE c
ToLowerChar(c) == LowerAt(c, IndexIn(UpperCase, c, 1))

\* \w of a regular expression
IsWordChar(c) ==
    c # "" /\ (IndexIn(UpperCase, c, 1) # 0 \/ IndexIn(LowerCase, c, 1) # 0
               \/ c \in DigitChars \/ c = "_")

\* The first position from i on, and the last up to j, that holds no white space
SkipWs(str, i) == LeastOr({k \in i..(Len(str) + 1) : Ch(str, k) \notin WhiteSpace}, i)
SkipWsBack(str, j) == GreatestOr({k \in 0..j : Ch(str, k) \notin WhiteSpace}, j)

\* String.prototype.trim
Trim(str) == Sub(str, SkipWs(str, 1), SkipWsBack(str, Len(str)))

\* indexOf and lastIndexOf of one character, counted from 1; 0 stands for -1.
IndexOf(str, c) == IndexIn(str, c, 1)


\* lastIndexOf taken for indexOf
LastIndexOfAsFirst(str, c) == IndexOf(str, c)

LastIndexOf(str, c) == GreatestOr({k \in 1..Len(str) : Ch(str, k) = c}, 0)

Includes(str, pat) == IndexIn(str, pat, 1) # 0

----------------------------------------------------------------------------
(* JSON.parse, on the JSON subset the replies are drawn from: objects,     *)
(* arrays, strings without escapes, the three literals, and numbers with   *)
(* at most one fraction digit, 0 or 5 (the numbers countable in halves).   *)
(* An operator hands each intermediate result to the next one as an        *)
(* argument, so that it is computed once.                                  *)

Halves(units) == 2 * units

ParseFail == [ok |-> FALSE, v |-> JUndefined, next |-> 0]
ParseOk(val, nxt) == [ok |-> TRUE, v |-> val, next |-> nxt]

ScanDigits(str, i) == LeastOr({k \in i..(Len(str) + 1) : Ch(str, k) \notin DigitChars}, i)

DigitVal(c) == IndexIn(Digits, c, 1) - 1

RECURSIVE NatOf(_, _, _, _)
NatOf(str, i, j, acc) ==
    IF i >= j THEN acc ELSE NatOf(str, i + 1, j, acc * 10 + DigitVal(Ch(str, i)))

\* The digits of a magnitude are str[a..b-1], a fraction's str[b+1..c-1]
\* (c = b when there is no "."); half is the fraction digit counted in halves.
Magnitude(str, a, b, c) ==
    Halves(NatOf(str, a, b, 0)) + (IF c > b + 1 /\ Ch(str, b + 1) = "5" THEN 1 ELSE 0)

WithSign(negative, mag) == IF negative THEN 0 - mag ELSE mag

\* -?(0|[1-9][0-9]*)(\.[05])?
NumberAt(str, i, a, b, c) ==
    IF /\ b > a
       /\ (Ch(str, a) # "0" \/ b = a + 1)
       /\ (c = b \/ (c = b + 2 /\ Ch(str, b + 1) \in {"0", "5"}))
    THEN ParseOk(JNum(WithSign(Ch(str, i) = "-", Magnitude(str, a, b, c))), c)
    ELSE ParseFail

FractionAt(str, i, a, b) ==
    NumberAt(str, i, a, b, IF Ch(str, b) = "." THEN ScanDigits(str, b + 1) ELSE b)

ParseNumber(str, i) ==
    IF Ch(str, i) = "-"
    THEN FractionAt(str, i, i + 1, ScanDigits(str, i + 1))
    ELSE FractionAt(str, i, i, ScanDigits(str, i))

\* The closing quote of a string whose first character is at i; 0 when the
\* string is unterminated or holds a backslash or a control character.
QuoteAt(str, k) == IF Ch(str, k) = "\"" THEN k ELSE 0
ScanString(str, i) ==
    QuoteAt(str, LeastOr({k \in i..Len(str) : Ch(str, k) \in {"\"", "\\", "\n", "\t"}}, 0))

\* A string whose opening quote is at j and closing quote at q
StringAt(str, j, q) ==
    IF q = 0 THEN ParseFail ELSE ParseOk(JStr(Sub(str, j + 1, q - 1)), q + 1)

RECURSIVE ParseValue(_, _)
RECURSIVE ParseMembers(_, _, _)
RECURSIVE ParseElements(_, _, _)

\* After a member: "}" ends the object, "," leads to the next member.
MemberEnd(str, acc, e) ==
    IF Ch(str, e) = "}" THEN ParseOk(JObj(acc), e + 1)
    ELSE IF Ch(str, e) = "," THEN ParseMembers(str, SkipWs(str, e + 1), acc)
    ELSE ParseFail

MemberValue(str, acc, key, r) ==
    IF ~r.ok THEN ParseFail
    ELSE MemberEnd(str, Append(acc, P(key, r.v)), SkipWs(str, r.next))

MemberColon(str, acc, key, colon) ==
    IF Ch(str, colon) # ":" THEN ParseFail
    ELSE MemberValue(str, acc, key, ParseValue(str, colon + 1))

MemberKey(str, i, acc, q) ==
    IF q = 0 THEN ParseFail
    ELSE MemberColon(str, acc, Sub(str, i + 1, q - 1), SkipWs(str, q + 1))

\* The members of an object from the key at i on; acc holds those before.
ParseMembers(str, i, acc) ==
    IF Ch(str, i) # "\"" THEN ParseFail
    ELSE MemberKey(str, i, acc, ScanString(str, i + 1))

ElementEnd(str, acc, e) ==
    IF Ch(str, e) = "]" THEN ParseOk(JArr(acc), e + 1)
    ELSE IF Ch(str, e) = "," THEN ParseElements(str, e + 1, acc)
    ELSE ParseFail

ElementValue(str, acc, r) ==
    IF ~r.ok THEN ParseFail
    ELSE ElementEnd(str, Append(acc, r.v), SkipWs(str, r.next))

\* The elements of an array from i on; acc holds those before.
ParseElements(str, i, acc) == ElementValue(str, acc, ParseValue(str, i))

\* k is the first position after the opening brace or bracket that is not
\* white space.
ObjectAt(str, k) ==
    IF Ch(str, k) = "}" THEN ParseOk(JObj(<<>>), k + 1) ELSE ParseMembers(str, k, <<>>)

ArrayAt(str, k) ==
    IF Ch(str, k) = "]" THEN ParseOk(JArr(<<>>), k + 1) ELSE ParseElements(str, k, <<>>)

ValueAt(str, j) ==
    IF Ch(str, j) = "{" THEN ObjectAt(str, SkipWs(str, j + 1))
    ELSE IF Ch(str, j) = "[" THEN ArrayAt(str, SkipWs(str, j + 1))
    ELSE IF Ch(str, j) = "\"" THEN StringAt(str, j, ScanString(str, j + 1))
    ELSE IF Ch(str, j) = "-" \/ Ch(str, j) \in DigitChars THEN ParseNumber(str, j)
    ELSE IF StartsAt(str, j, "true") THEN ParseOk(JBool(TRUE), j + Len("true"))
    ELSE IF StartsAt(str, j, "false") THEN ParseOk(JBool(FALSE), j + Len("false"))
    ELSE IF StartsAt(str, j, "null") THEN ParseOk(JNull, j + Len("null"))
    ELSE ParseFail

ParseValue(str, i) == ValueAt(str, SkipWs(str, i))

\* Errors are [name, message]; NoError stands where nothing was thrown.
Err(nm, msg) == [name |-> nm, message |-> msg]
NoError == Err("", "")

\* How the runtime words a SyntaxError of JSON.parse is its own business.
\* "positional" names a token and a position ("Unexpected token i in JSON at
\* position 10"); the message is kept without the two.  "quoting" names the
\* token and quotes the source text ("Unexpected token 'i', "{"error":
\* timeout}" is not valid JSON"): the whole of a short text, the part around
\* the token of a long one; the message is kept without the token and with
\* the text whole.
Engines == {"positional", "quoting"}

SyntaxErrorOf(str, eng) ==
    IF eng = "quoting"
    THEN Err("SyntaxError", "Unexpected token, \"" \o str \o "\" is not valid JSON")
    ELSE Err("SyntaxError", "Unexpected token in JSON")

Returned(val) == [ok |-> TRUE, v |-> val, err |-> NoError]
Threw(e) == [ok |-> FALSE, v |-> JUndefined, err |-> e]

TextEnd(str, eng, r) ==
    IF r.ok /\ SkipWs(str, r.next) = Len(str) + 1
    THEN Returned(r.v)
    ELSE Threw(SyntaxErrorOf(str, eng))

\* JSON.parse(str): the whole text must be one value between white space.
JSONParse(str, eng) == TextEnd(str, eng, ParseValue(str, 1))

----------------------------------------------------------------------------
(* extractJSON *)

FenceJson == "~~~json"
Fence == "~~~"

\* str.replace(/```json\s*/g, ""), from position i on; hit is where the next
\* match starts
RECURSIVE ReplaceFenceJson(_, _)
ReplaceFenceJsonAt(str, i, hit) ==
    IF hit = 0 THEN Sub(str, i, Len(str))
    ELSE Sub(str, i, hit - 1) \o ReplaceFenceJson(str, SkipWs(str, hit + Len(FenceJson)))
ReplaceFenceJson(str, i) == ReplaceFenceJsonAt(str, i, IndexIn(str, FenceJson, i))

\* str.replace(/```/g, "")
RECURSIVE ReplaceFence(_, _)
ReplaceFenceAt(str, i, hit) ==
    IF hit = 0 THEN Sub(str, i, Len(str))
    ELSE Sub(str, i, hit - 1) \o ReplaceFence(str, hit + Len(Fence))
ReplaceFence(str, i) == ReplaceFenceAt(str, i, IndexIn(str, Fence, i))

CleanedText(str) == Trim(ReplaceFence(ReplaceFenceJson(str, 1), 1))

NoJsonFound == Err("Error", "No JSON found in response")

\* The innermost try: the text from the first "{" to the last "}", or the
\* throw of line 68.  Positions count from 1, and 0 stands for -1.
BraceSpan(cleanedText, eng, firstBrace, lastBrace) ==
    IF firstBrace # 0 /\ lastBrace # 0 /\ lastBrace > firstBrace
    THEN JSONParse(Sub(cleanedText, firstBrace, lastBrace), eng)
    ELSE Threw(NoJsonFound)

\* The second try, given what JSON.parse(cleanedText) came to
SecondTry(cleanedText, eng, parsed) ==
    IF parsed.ok THEN parsed
    ELSE BraceSpan(cleanedText, eng, IndexOf(cleanedText, "{"), LastIndexOf(cleanedText, "}"))

\* The first try, given what JSON.parse(text) came to
FirstTry(str, eng, parsed) ==
    IF parsed.ok THEN parsed
    ELSE SecondTry(CleanedText(str), eng, JSONParse(CleanedText(str), eng))

extractJSON(str, eng) == FirstTry(str, eng, JSONParse(str, eng))

----------------------------------------------------------------------------
(* Number(value) and String(value) *)

DigitStr(d) == Ch(Digits, d + 1)

RECURSIVE NatToStr(_)
NatToStr(k) == IF k < 10 THEN DigitStr(k) ELSE NatToStr(k \div 10) \o DigitStr(k % 10)

\* A finite number, counted in halves, as JavaScript prints it.
MagToStr(mag) == NatToStr(mag \div Halves(1)) \o (IF mag % Halves(1) = 0 THEN "" ELSE ".5")
NumToStr(h) == IF h < 0 THEN "-" \o MagToStr(0 - h) ELSE MagToStr(h)

RECURSIVE StringOf(_)
RECURSIVE Join(_, _)
\* Array.prototype.join(","): undefined and null elements print as "".
Join(elems, i) ==
    IF i > Len(elems) THEN ""
    ELSE (IF i > 1 THEN "," ELSE "")
         \o (IF IsNullish(elems[i]) THEN "" ELSE StringOf(elems[i]))
         \o Join(elems, i + 1)

\* String(v).  The objects here hold no toString or valueOf property of their
\* own, so Object.prototype.toString is what converts them.
StringOf(v) ==
    CASE v.t = "undefined" -> "undefined"
      [] v.t = "null" -> "null"
      [] v.t = "boolean" -> (IF v.n = 1 THEN "true" ELSE "false")
      [] v.t = "number" -> NumToStr(v.n)
      [] v.t = "NaN" -> "NaN"
      [] v.t = "Infinity" -> "Infinity"
      [] v.t = "-Infinity" -> "-Infinity"
      [] v.t = "string" -> v.s
      [] v.t = "array" -> Join(v.l, 1)
      [] OTHER -> "[object Object]"

\* A decimal literal t whose digits are t[a..b-1] and whose fraction is
\* t[b+1..c-1] (c = b when there is no "."): [0-9]*(\.[0-9]*)? with a digit
\* somewhere.  Of the fractions only none, .0 and .5 are countable in halves.
DecimalAt(t, a, b, c) ==
    IF /\ (b > a \/ c > b + 1)
       /\ c = Len(t) + 1
       /\ (c <= b + 1 \/ (c = b + 2 /\ Ch(t, b + 1) \in {"0", "5"}))
    THEN JNum(WithSign(Ch(t, 1) = "-", Magnitude(t, a, b, c)))
    ELSE JNaN

DecimalFrom(t, a, b) ==
    DecimalAt(t, a, b, IF Ch(t, b) = "." THEN ScanDigits(t, b + 1) ELSE b)

\* t is trimmed, a the position after its sign
Numeric(t, a) ==
    IF t = "" THEN JNum(0)
    ELSE IF Sub(t, a, Len(t)) = "Infinity"
    THEN (IF Ch(t, 1) = "-" THEN JNegInfinity ELSE JInfinity)
    ELSE DecimalFrom(t, a, ScanDigits(t, a))

Unsigned(t) == Numeric(t, IF Ch(t, 1) \in {"+", "-"} THEN 2 ELSE 1)

\* The number a string converts to: white space trimmed, "" is 0, then a
\* signed decimal literal or a signed Infinity, anything else NaN.
StringToNumber(str) == Unsigned(Trim(str))

\* Number(v)
Number(v) ==
    CASE v.t = "undefined" -> JNaN
      [] v.t = "null" -> JNum(0)
      [] v.t = "boolean" -> JNum(Halves(v.n))
      [] IsNumberType(v) -> v
      [] v.t = "string" -> StringToNumber(v.s)
      [] v.t \in {"array", "object"} -> StringToNumber(StringOf(v))
      [] OTHER -> v

\* a + b on numbers
AddNum(a, b) ==
    IF a.t = "thrown" \/ b.t = "thrown" THEN JThrown
    ELSE IF a.t = "number" /\ b.t = "number" THEN JNum(a.n + b.n)
    ELSE IF a.t = "NaN" \/ b.t = "NaN" THEN JNaN
    ELSE IF a.t = "number" THEN b
    ELSE IF b.t = "number" \/ a.t = b.t THEN a
    ELSE JNaN

----------------------------------------------------------------------------
(* toNumber and normalizeAnalysis *)

\* Number.isFinite(num) ? num : fallback (a TypeError thrown while the
\* argument was read stays thrown)
FiniteOr(num, fallback) == IF IsFinite(num) \/ num.t = "thrown" THEN num ELSE fallback

toNumber(value, fallback) ==
    FiniteOr(IF IsNumberType(value) THEN value ELSE Number(value), fallback)

Zero == JNum(0)
\* 0.5, in halves
DefaultConfidence == JNum(1)

MacroKeys == {"protein_g", "carbs_g", "fat_g", "fiber_g", "sugar_g"}
MicroKeys == {"sodium_mg", "potassium_mg", "calcium_mg", "iron_mg", "vitamin_a_mcg",
              "vitamin_c_mg", "cholesterol_mg"}
Orientations == {"portrait", "landscape", "square"}

\* v === 'portrait' || v === 'landscape' || v === 'square'
IsOrientation(v) == v.t = "string" /\ v.s \in Orientations

RECURSIVE MapString(_, _)
\* arr.map(String)
MapString(elems, i) ==
    IF i > Len(elems) THEN <<>> ELSE <<StringOf(elems[i])>> \o MapString(elems, i + 1)

\* Array.isArray(holder?.allergens) ? holder.allergens.map(String) : []
AllergensOf(holder) ==
    IF IsArray(OptGet(holder, "allergens"))
    THEN MapString(Get(holder, "allergens").l, 1)
    ELSE <<>>

\* it?.label ?? 'item'
LabelOr(label) == IF IsNullish(label) THEN JStr("item") ELSE label

\* The nutrition of a normalized item, from it?.nutrition
normNutrition(nutrition) ==
    [ calories_kcal |-> toNumber(OptGet(nutrition, "calories_kcal"), Zero),
      macros |-> [k \in MacroKeys |-> toNumber(OptGet(OptGet(nutrition, "macros"), k), Zero)],
      micros |-> [k \in MicroKeys |-> toNumber(OptGet(OptGet(nutrition, "micros"), k), Zero)],
      allergens |-> AllergensOf(nutrition) ]

\* The bbox_norm of a normalized item, from it?.bbox_norm
normBbox(bbox) ==
    [ x |-> toNumber(OptGet(bbox, "x"), Zero),
      y |-> toNumber(OptGet(bbox, "y"), Zero),
      w |-> toNumber(OptGet(bbox, "w"), Zero),
      h |-> toNumber(OptGet(bbox, "h"), Zero) ]

\* One element of normItems
normItem(it) ==
    [ label |-> StringOf(LabelOr(OptGet(it, "label"))),
      confidence |-> toNumber(OptGet(it, "confidence"), DefaultConfidence),
      serving_est_g |-> toNumber(OptGet(it, "serving_est_g"), Zero),
      bbox_norm |-> normBbox(OptGet(it, "bbox_norm")),
      nutrition |-> normNutrition(OptGet(it, "nutrition")) ]

RECURSIVE MapItems(_, _)
\* composition.map(it => ...)
MapItems(composition, i) ==
    IF i > Len(composition) THEN <<>>
    ELSE <<normItem(composition[i])>> \o MapItems(composition, i + 1)

RECURSIVE SumOver(_, _)
\* normItems.reduce((s, i) => s + toNumber(i.field, 0), 0), where fields holds
\* i.field for each i of normItems: the sum over the first n of them
SumOver(fields, n) ==
    IF n = 0 THEN Zero ELSE AddNum(SumOver(fields, n - 1), toNumber(fields[n], Zero))

Reduce(fields) == SumOver(fields, Len(fields))

RECURSIVE FlatAllergens(_, _)
\* normItems.flatMap(i => i.nutrition.allergens)
FlatAllergens(normItems, i) ==
    IF i > Len(normItems) THEN <<>>
    ELSE normItems[i].nutrition.allergens \o FlatAllergens(normItems, i + 1)

RECURSIVE Dedupe(_, _, _)
\* Array.from(new Set(list)): the first occurrence of each element, in order
Dedupe(list, i, acc) ==
    IF i > Len(list) THEN acc
    ELSE IF \E j \in 1..Len(acc) : acc[j] = list[i] THEN Dedupe(list, i + 1, acc)
    ELSE Dedupe(list, i + 1, Append(acc, list[i]))

\* i.serving_est_g, i.nutrition.calories_kcal, i.nutrition.macros[k] and
\* i.nutrition.micros[k] for each i of normItems
Servings(normItems) == [n \in 1..Len(normItems) |-> normItems[n].serving_est_g]
Calories(normItems) == [n \in 1..Len(normItems) |-> normItems[n].nutrition.calories_kcal]
Macros(normItems, k) == [n \in 1..Len(normItems) |-> normItems[n].nutrition.macros[k]]
Micros(normItems, k) == [n \in 1..Len(normItems) |-> normItems[n].nutrition.micros[k]]

\* raw?.totals ?? {}
TotalsProvided(provided) == IF IsNullish(provided) THEN JObj(<<>>) ELSE provided

\* The totals, given totalsProvided and normItems
totalsOf(totalsProvided, normItems) ==
    [ serving_total_g |-> toNumber(OptGet(totalsProvided, "serving_total_g"),
                                   Reduce(Servings(normItems))),
      calories_kcal |-> toNumber(OptGet(totalsProvided, "calories_kcal"),
                                 Reduce(Calories(normItems))),
      macros |-> [k \in MacroKeys |->
                    toNumber(OptGet(OptGet(totalsProvided, "macros"), k),
                             Reduce(Macros(normItems, k)))],
      micros |-> [k \in MicroKeys |->
                    toNumber(OptGet(OptGet(totalsProvided, "micros"), k),
                             Reduce(Micros(normItems, k)))],
      allergens |-> IF IsArray(OptGet(totalsProvided, "allergens"))
                    THEN MapString(Get(totalsProvided, "allergens").l, 1)
                    ELSE Dedupe(FlatAllergens(normItems, 1), 1, <<>>) ]

\* The orientation when the one supplied is none of the three
DerivedOrientation(width, height) ==
    IF width.t = "thrown" \/ height.t = "thrown" THEN "thrown"
    ELSE IF width = height THEN "square"
    ELSE IF width.n > height.n THEN "landscape"
    ELSE "portrait"

\* image_meta, given raw?.image_meta
imageMetaOf(meta) ==
    [ width |-> toNumber(OptGet(meta, "width"), Zero),
      height |-> toNumber(OptGet(meta, "height"), Zero),
      orientation |->
          IF IsOrientation(OptGet(meta, "orientation"))
          THEN Get(meta, "orientation").s
          ELSE DerivedOrientation(toNumber(OptGet(meta, "width"), Zero),
                                  toNumber(OptGet(meta, "height"), Zero)) ]

\* Array.isArray(raw?.composition) ? raw.composition : []
CompositionOf(composition) == IF IsArray(composition) THEN composition.l ELSE <<>>

\* typeof raw?.notes === 'string' ? raw.notes : undefined
NotesOf(notes) == IF notes.t = "string" THEN notes ELSE JUndefined

\* The result, given raw and normItems
resultOf(rawValue, normItems) ==
    [ image_meta |-> imageMetaOf(OptGet(rawValue, "image_meta")),
      composition |-> normItems,
      totals |-> totalsOf(TotalsProvided(OptGet(rawValue, "totals")), normItems),
      notes |-> NotesOf(OptGet(rawValue, "notes")) ]

normalizeAnalysis(rawValue) ==
    resultOf(rawValue, MapItems(CompositionOf(OptGet(rawValue, "composition")), 1))

----------------------------------------------------------------------------
(* callSumopodAPI *)

SUMOPOD_BASE_URL == "https://ai.sumopod.com/v1/chat/completions"

\* What fetch can come back with: a rejection, or a response with its status
\* line and (for a non-ok response) its body text, (for an ok response) the
\* content of the first choice's message, "" when there is none.
Rejected(msg) ==
    [kind |-> "rejected", status |-> "", statusText |-> "", body |-> "", error |-> msg]
Failed(code, reason, errorText) ==
    [kind |-> "failed", status |-> code, statusText |-> reason, body |-> errorText, error |-> ""]
Answered(content) ==
    [kind |-> "answered", status |-> "200", statusText |-> "OK", body |-> content, error |-> ""]

GoodReply == "{\"image_meta\":{\"width\":800,\"height\":600},\"notes\":\"ok\"}"

Upstream ==
    { Rejected("fetch failed"),
      Failed("400", "Bad Request", ""),
      Failed("400", "Bad Request", "upstream timeout"),
      Failed("500", "Internal Server Error", ""),
      Failed("503", "Service Unavailable", ""),
      Failed("503", "", ""),
      Answered(GoodReply),
      Answered("Here it is: ~~~json\n" \o GoodReply \o "\n~~~"),
      Answered(""),
      Answered("Sorry, I cannot analyze this image."),
      Answered("{\"error\": timeout}") }

\* The request callSumopodAPI sends: one POST per invocation.
RequestOf(apiKey, model, url) ==
    [ endpoint |-> SUMOPOD_BASE_URL, authorization |-> "Bearer " \o apiKey,
      model |-> model, image_url |-> url ]

\* callSumopodAPI's outcome, given what fetch came back with.
callSumopodAPI(upstream) ==
    IF upstream.kind = "rejected" THEN Threw(Err("TypeError", upstream.error))
    ELSE IF upstream.kind = "failed"
    THEN Threw(Err("Error", "Sumopod API error: " \o upstream.status \o " "
                              \o upstream.statusText \o " - " \o upstream.body))
    ELSE Returned(JStr(upstream.body))

----------------------------------------------------------------------------
(* The transient-error test /\b(5\\d{2}|UNAVAILABLE|timeout)\b/i *)

\* str in lower case, from position i to position j
RECURSIVE ToLower(_, _, _)
ToLower(str, i, j) ==
    IF i > j THEN ""
    ELSE IF i = j THEN ToLowerChar(Ch(str, i))
    ELSE ToLower(str, i, (i + j) \div 2) \o ToLower(str, (i + j) \div 2 + 1, j)

\* The alternatives, lower-cased for the i flag.  In the regular expression
\* literal \\ is one backslash character and d{2} is "dd".
TransientAlternatives == {"5\\dd", "unavailable", "timeout"}

\* \b between positions i-1 and i
WordBoundary(str, i) == IsWordChar(Ch(str, i - 1)) # IsWordChar(Ch(str, i))

\* lower is msg in lower case
MatchesIn(msg, lower) ==
    \E pat \in TransientAlternatives : \E i \in 1..Len(msg) :
        /\ StartsAt(lower, i, pat)
        /\ WordBoundary(msg, i)
        /\ WordBoundary(msg, i + Len(pat))

transient(msg) == MatchesIn(msg, ToLower(msg, 1, Len(msg)))

----------------------------------------------------------------------------
(* The request handlers: POST /api/analyze-image and POST /api/analyze-camera *)

Endpoints == {"analyze-image", "analyze-camera"}
EnvNames == {"SUMOPOD_GEMINI_API_KEY", "SUMOPOD_GPT5_API_KEY", "SUMOPOD_API_KEY"}

\* process.env.X || process.env.SUMOPOD_API_KEY ("" is falsy, like undefined)
KeyFor(e, name) == IF e[name] # "" THEN e[name] ELSE e["SUMOPOD_API_KEY"]

Candidate(m, k) == [model |-> m, key |-> k]

\* imageCandidates with the two pushes in the other order
imageCandidatesGptFirst(keyGemini, keyGpt) ==
    (IF keyGpt # "" THEN <<Candidate("gpt-5-nano", keyGpt)>> ELSE <<>>)
    \o (IF keyGemini # ""
        THEN <<Candidate("gemini/gemini-2.0-flash", keyGemini),
               Candidate("gemini/gemini-1.5-flash", keyGemini)>>
        ELSE <<>>)

imageCandidates(keyGemini, keyGpt) ==
    (IF keyGemini # ""
     THEN <<Candidate("gemini/gemini-2.0-flash", keyGemini),
            Candidate("gemini/gemini-1.5-flash", keyGemini)>>
     ELSE <<>>)
    \o (IF keyGpt # "" THEN <<Candidate("gpt-5-nano", keyGpt)>> ELSE <<>>)

cameraCandidates(keyGpt, keyGemini) ==
    (IF keyGpt # "" THEN <<Candidate("gpt-5-nano", keyGpt)>> ELSE <<>>)
    \o (IF keyGemini # ""
        THEN <<Candidate("gemini/gemini-2.0-flash", keyGemini)>>
        ELSE <<>>)

CandidatesOf(ep, e) ==
    IF ep = "analyze-image"
    THEN imageCandidates(KeyFor(e, "SUMOPOD_GEMINI_API_KEY"), KeyFor(e, "SUMOPOD_GPT5_API_KEY"))
    ELSE cameraCandidates(KeyFor(e, "SUMOPOD_GPT5_API_KEY"), KeyFor(e, "SUMOPOD_GEMINI_API_KEY"))

NoBody == [absent |-> TRUE]
NoResponse == [status |-> 0, message |-> "", body |-> NoBody]
\* res.status(code).json({ message })
ErrorResponse(code, msg) == [status |-> code, message |-> msg, body |-> NoBody]
\* res.json(normalized)
OkResponse(result) == [status |-> 200, message |-> "", body |-> result]

\* Validate with the keys looked at before dataURL
ValidateKeysFirst(url, e) ==
    IF KeyFor(e, "SUMOPOD_GEMINI_API_KEY") = "" /\ KeyFor(e, "SUMOPOD_GPT5_API_KEY") = ""
    THEN ErrorResponse(500, "Sumopod API keys not configured")
    ELSE IF url = "" THEN ErrorResponse(400, "dataURL is required")
    ELSE NoResponse

\* The checks before the candidate loop: the response they send, or
\* NoResponse when the request passes them.
Validate(url, e) ==
    IF url = "" THEN ErrorResponse(400, "dataURL is required")
    ELSE IF KeyFor(e, "SUMOPOD_GEMINI_API_KEY") = "" /\ KeyFor(e, "SUMOPOD_GPT5_API_KEY") = ""
    THEN ErrorResponse(500, "Sumopod API keys not configured")
    ELSE NoResponse

\* for (let attempt = 0; attempt < 2; attempt++)
Attempts == 2

\* throw lastErr ?? new Error("All model candidates failed"), and the message
\* the outer catch sends (every value thrown here is an Error)
ExhaustedError(le) == IF le = NoError THEN Err("Error", "All model candidates failed") ELSE le

\* The catch of one attempt: e, and what the transient test makes of e.message
Caught(stg, e) == [stage |-> stg, err |-> e, transient |-> transient(e.message), body |-> NoBody]

\* One attempt from the client's return on: extractJSON, normalizeAnalysis.
Normalized(json) ==
    IF ~json.ok THEN Caught("parse-error", json.err)
    ELSE [stage |-> "ok", err |-> NoError, transient |-> FALSE,
          body |-> normalizeAnalysis(json.v)]

Extracted(r, eng) ==
    IF ~r.ok THEN Caught("client-error", r.err) ELSE Normalized(extractJSON(r.v.s, eng))

AttemptOutcome(upstream, eng) == Extracted(callSumopodAPI(upstream), eng)

\* attempt === 0 && transient
ShouldRetry(att, out) == att = 0 /\ out.transient

\* calls with one more invocation of callSumopodAPI, not yet settled
Invoke(log, cand, att) ==
    Append(log, [ model |-> cand.model, key |-> cand.key, attempt |-> att,
                  request |-> RequestOf(cand.key, cand.model, dataURL),
                  stage |-> "pending", err |-> NoError, result |-> NoBody ])

\* calls with the pending invocation settled: how the attempt ended, with the
\* error it threw or the result it normalized
Settled(log, out) ==
    [log EXCEPT ![Len(log)].stage = out.stage, ![Len(log)].err = out.err,
                ![Len(log)].result = out.body]

Unused == "unused"

\* An attempt's outcome is a function of fetch's answer alone: outcomes
\* tabulates it once, for the runtime at hand.
Init ==
    /\ engine \in Engines
    /\ outcomes = [upstream \in Upstream |-> AttemptOutcome(upstream, engine)]
    /\ endpoint \in Endpoints
    /\ dataURL \in {"", "data:image/png;base64,iVBORw0KGgo="}
    /\ env \in {[name \in EnvNames |-> IF name \in set THEN "sk-" \o name ELSE ""] :
                 set \in SUBSET EnvNames}
    /\ pc = "received"
    /\ candidates = <<>>
    /\ ci = 0
    /\ attempt = 0
    /\ lastErr = NoError
    /\ calls = <<>>
    /\ response = NoResponse
    /\ text = Unused /\ extracted = Unused /\ raw = Unused /\ normalized = Unused
    /\ phase = Unused

\* Missing dataURL, or no key at all: the handler answers at once.
Reject ==
    /\ pc = "received"
    /\ Validate(dataURL, env) # NoResponse
    /\ response' = Validate(dataURL, env)
    /\ pc' = "done"
    /\ UNCHANGED <<engine, outcomes, endpoint, dataURL, env, candidates, ci, attempt,
                   lastErr, calls>>

\* The handler builds its candidates and invokes the client for the first.
Start ==
    /\ pc = "received"
    /\ Validate(dataURL, env) = NoResponse
    /\ candidates' = CandidatesOf(endpoint, env)
    /\ lastErr' = NoError
    /\ IF candidates' = <<>>
       THEN /\ response' = ErrorResponse(500, ExhaustedError(lastErr').message)
            /\ pc' = "done"
            /\ UNCHANGED <<ci, attempt, calls>>
       ELSE /\ ci' = 1
            /\ attempt' = 0
            /\ calls' = Invoke(calls, candidates'[1], 0)
            /\ pc' = "awaiting"
            /\ UNCHANGED response
    /\ UNCHANGED <<engine, outcomes, endpoint, dataURL, env>>

\* Succeed without the return: the response is sent and the attempt loop
\* goes on.
SucceedWithoutReturn ==
    /\ pc = "awaiting"
    /\ \E upstream \in Upstream :
        /\ outcomes[upstream].stage = "ok"
        /\ response' = OkResponse(outcomes[upstream].body)
        /\ IF attempt + 1 < Attempts
           THEN /\ attempt' = attempt + 1
                /\ calls' = Invoke(Settled(calls, outcomes[upstream]), candidates[ci], attempt')
                /\ pc' = "awaiting"
           ELSE /\ calls' = Settled(calls, outcomes[upstream])
                /\ pc' = "done"
                /\ UNCHANGED attempt
    /\ UNCHANGED <<engine, outcomes, endpoint, dataURL, env, candidates, ci, lastErr>>

\* The attempt succeeds: return res.json(normalized).
Succeed ==
    /\ pc = "awaiting"
    /\ \E upstream \in Upstream :
        /\ outcomes[upstream].stage = "ok"
        /\ calls' = Settled(calls, outcomes[upstream])
        /\ response' = OkResponse(outcomes[upstream].body)
    /\ pc' = "done"
    /\ UNCHANGED <<engine, outcomes, endpoint, dataURL, env, candidates, ci, attempt, lastErr>>

\* The attempt fails and is retried: await the 500 ms delay, then continue.
Retry ==
    /\ pc = "awaiting"
    /\ \E upstream \in Upstream :
        /\ outcomes[upstream].stage # "ok"
        /\ ShouldRetry(attempt, outcomes[upstream])
        /\ calls' = Settled(calls, outcomes[upstream])
    /\ pc' = "sleeping"
    /\ UNCHANGED <<engine, outcomes, endpoint, dataURL, env, candidates, ci, attempt,
                   lastErr, response>>

\* The delay is over: attempt++, and the client is invoked again.
Wake ==
    /\ pc = "sleeping"
    /\ attempt + 1 < Attempts
    /\ attempt' = attempt + 1
    /\ calls' = Invoke(calls, candidates[ci], attempt')
    /\ pc' = "awaiting"
    /\ UNCHANGED <<engine, outcomes, endpoint, dataURL, env, candidates, ci, lastErr, response>>

\* The attempt fails and is not retried: throw e, lastErr = err, and the
\* next candidate's client is invoked.
FallThrough ==
    /\ pc = "awaiting"
    /\ ci < Len(candidates)
    /\ \E upstream \in Upstream :
        /\ outcomes[upstream].stage # "ok"
        /\ ~ShouldRetry(attempt, outcomes[upstream])
        /\ lastErr' = outcomes[upstream].err
        /\ calls' = Invoke(Settled(calls, outcomes[upstream]), candidates[ci + 1], 0)
    /\ ci' = ci + 1
    /\ attempt' = 0
    /\ pc' = "awaiting"
    /\ UNCHANGED <<engine, outcomes, endpoint, dataURL, env, candidates, response>>

\* Exhaust with lastErr assigned only while it is unset (lastErr ??= err)
ExhaustKeepingEarlier ==
    /\ pc = "awaiting"
    /\ ci = Len(candidates)
    /\ \E upstream \in Upstream :
        /\ outcomes[upstream].stage # "ok"
        /\ ~ShouldRetry(attempt, outcomes[upstream])
        /\ lastErr' = (IF lastErr = NoError THEN outcomes[upstream].err ELSE lastErr)
        /\ calls' = Settled(calls, outcomes[upstream])
        /\ response' = ErrorResponse(500, ExhaustedError(lastErr').message)
    /\ pc' = "done"
    /\ UNCHANGED <<engine, outcomes, endpoint, dataURL, env, candidates, ci, attempt>>

\* The last candidate's attempt fails and is not retried: the loop ends, the
\* handler throws lastErr and its catch answers 500.
Exhaust ==
    /\ pc = "awaiting"
    /\ ci = Len(candidates)
    /\ \E upstream \in Upstream :
        /\ outcomes[upstream].stage # "ok"
        /\ ~ShouldRetry(attempt, outcomes[upstream])
        /\ lastErr' = outcomes[upstream].err
        /\ calls' = Settled(calls, outcomes[upstream])
        /\ response' = ErrorResponse(500, ExhaustedError(lastErr').message)
    /\ pc' = "done"
    /\ UNCHANGED <<engine, outcomes, endpoint, dataURL, env, candidates, ci, attempt>>

Next ==
    \/ (Reject /\ UNCHANGED funVars)
    \/ (Start /\ UNCHANGED funVars)
    \/ (Succeed /\ UNCHANGED funVars)
    \/ (Retry /\ UNCHANGED funVars)
    \/ (Wake /\ UNCHANGED funVars)
    \/ (FallThrough /\ UNCHANGED funVars)
    \/ (Exhaust /\ UNCHANGED funVars)

Spec == Init /\ [][Next]_vars

----------------------------------------------------------------------------
(* Properties of the request handlers.  calls is the record of a request:  *)
(* every invocation of the model client in order, and how each ended.      *)

Failures == {"client-error", "parse-error"}
LastCall == calls[Len(calls)]

\* After invocation i the same candidate is invoked once more (or the
\* handler is in the delay before it), and then no more.
InvokedOnceMore(i) ==
    /\ i = Len(calls) => pc = "sleeping"
    /\ i < Len(calls) => calls[i + 1].model = calls[i].model /\ calls[i + 1].attempt = 1
    /\ i + 2 <= Len(calls) => calls[i + 2].model # calls[i].model

\* After invocation i the same candidate is not invoked again.
NotInvokedAgain(i) ==
    /\ i = Len(calls) => pc # "sleeping"
    /\ i < Len(calls) => calls[i + 1].model # calls[i].model

\* The messages an attempt's error can carry
ErrorMessages ==
    {AttemptOutcome(upstream, eng).err.message : upstream \in Upstream, eng \in Engines} \ {""}

\* msg holds a three-digit status code whose first digit is d
HasStatus(msg, d) ==
    \E i \in 1..Len(msg) :
        /\ Ch(msg, i) = d /\ Ch(msg, i + 1) \in DigitChars /\ Ch(msg, i + 2) \in DigitChars
        /\ Ch(msg, i - 1) \notin DigitChars /\ Ch(msg, i + 3) \notin DigitChars

HasMarker(lower) == Includes(lower, "unavailable") \/ Includes(lower, "timeout")

ServerErrorMessages == {msg \in ErrorMessages : HasStatus(msg, "5")}
BadRequestMessages ==
    {msg \in ErrorMessages : Includes(msg, "400") /\ ~HasMarker(ToLower(msg, 1, Len(msg)))}

\* C1: a candidate whose first attempt fails with a message that holds a 5xx
\* status code is invoked exactly once more before the handler goes on to the
\* next candidate; one whose first attempt fails with a message that holds
\* "400", and neither UNAVAILABLE nor timeout, is not invoked again.
C1_RetryOnServerError ==
    \A i \in 1..Len(calls) :
        (calls[i].attempt = 0 /\ calls[i].stage \in Failures) =>
            /\ calls[i].err.message \in ServerErrorMessages => InvokedOnceMore(i)
            /\ calls[i].err.message \in BadRequestMessages => NotInvokedAgain(i)

\* C2: once an attempt succeeds its normalized result is the response, and
\* the model client is not invoked again in that request: the successful
\* invocation is the last one, and a 200 response is that of a successful
\* last invocation.
C2_ShortCircuit ==
    /\ \A i \in 1..Len(calls) :
          calls[i].stage = "ok" =>
              /\ i = Len(calls)
              /\ pc = "done"
              /\ response = OkResponse(calls[i].result)
    /\ response.status = 200 => calls # <<>> /\ LastCall.stage = "ok"

\* Candidate 1 succeeded at its first attempt, and candidate 2 was left alone.
C2_Witness ==
    /\ pc = "done"
    /\ Len(candidates) >= 2
    /\ Len(calls) = 1
    /\ calls[1].stage = "ok"
    /\ response = OkResponse(calls[1].result)

\* The request went through its candidates and none succeeded.
Exhausted == pc = "done" /\ response.status = 500 /\ calls # <<>>

\* C3: when every candidate is exhausted the response is a 500 whose message
\* is that of the last error seen, the one of the final attempt on the last
\* candidate; the message "All model candidates failed" needs lastErr unset.
C3_LastError ==
    /\ Exhausted =>
          /\ LastCall.model = candidates[Len(candidates)].model
          /\ LastCall.stage \in Failures
          /\ lastErr = LastCall.err
          /\ response = ErrorResponse(500, LastCall.err.message)
    /\ (pc = "done" /\ response.message = "All model candidates failed") => lastErr = NoError
    /\ (pc = "done" /\ calls # <<>> /\ LastCall.stage \in Failures) => Exhausted

\* The last candidate was retried, and its two attempts and an earlier
\* candidate failed with three different messages.
C3_Witness ==
    /\ Exhausted
    /\ Len(calls) >= 3
    /\ LastCall.attempt = 1
    /\ calls[Len(calls) - 1].err.message # LastCall.err.message
    /\ calls[1].model # LastCall.model
    /\ calls[1].err.message \notin {calls[Len(calls) - 1].err.message, LastCall.err.message}

\* The preference order of an entry point
PreferenceOrder(ep) ==
    IF ep = "analyze-image"
    THEN <<"gemini/gemini-2.0-flash", "gemini/gemini-1.5-flash", "gpt-5-nano">>
    ELSE <<"gpt-5-nano", "gemini/gemini-2.0-flash">>

Rank(ep, model) ==
    CHOOSE k \in 1..Len(PreferenceOrder(ep)) : PreferenceOrder(ep)[k] = model

\* The key a model's family uses: its own, or the shared one
FamilyKey(model) ==
    IF model = "gpt-5-nano" THEN KeyFor(env, "SUMOPOD_GPT5_API_KEY")
    ELSE KeyFor(env, "SUMOPOD_GEMINI_API_KEY")

\* Invocation i is the last one of its candidate, and failed.
Abandoned(i) ==
    /\ calls[i].stage \in Failures
    /\ i < Len(calls) => calls[i + 1].model # calls[i].model
    /\ i = Len(calls) => pc = "done"

\* C4: the invocations of a request come one at a time, in the entry point's
\* preference order restricted to the candidates whose key is configured: no
\* candidate is invoked after a later one, and a candidate is invoked only
\* after every configured earlier one was abandoned.
C4_PreferenceOrder ==
    /\ \A i \in 1..Len(calls) :
          /\ \E k \in 1..Len(PreferenceOrder(endpoint)) :
                PreferenceOrder(endpoint)[k] = calls[i].model
          /\ calls[i].key # ""
          /\ calls[i].key = FamilyKey(calls[i].model)
          /\ calls[i].stage = "pending" => i = Len(calls)
    /\ \A i, j \in 1..Len(calls) :
          i < j => Rank(endpoint, calls[i].model) <= Rank(endpoint, calls[j].model)
    /\ \A j \in 1..Len(calls) :
          \A k \in 1..(Rank(endpoint, calls[j].model) - 1) :
              FamilyKey(PreferenceOrder(endpoint)[k]) # "" =>
                  \E i \in 1..(j - 1) :
                      calls[i].model = PreferenceOrder(endpoint)[k] /\ Abandoned(i)

\* An upload went through all three candidates, the first one retried.
C4_Witness ==
    /\ endpoint = "analyze-image"
    /\ Len(calls) = 4
    /\ calls[1].model = "gemini/gemini-2.0-flash"
    /\ calls[2].model = "gemini/gemini-2.0-flash"
    /\ calls[3].model = "gemini/gemini-1.5-flash"
    /\ calls[4].model = "gpt-5-nano"

NoKey == \A name \in EnvNames : env[name] = ""

\* C5: the model client is invoked only for a request with a dataURL and at
\* least one key; without a dataURL the response is 400 "dataURL is required"
\* whatever the keys, with a dataURL and no key it is a 500 whose message
\* holds "not configured", and in both cases nothing is invoked or retried.
C5_Validation ==
    /\ calls # <<>> => dataURL # "" /\ ~NoKey
    /\ (dataURL = "" \/ NoKey) => calls = <<>> /\ pc \in {"received", "done"}
    /\ (pc = "done" /\ dataURL = "") => response = ErrorResponse(400, "dataURL is required")
    /\ (pc = "done" /\ dataURL # "" /\ NoKey) =>
          response.status = 500 /\ Includes(response.message, "not configured")

\* A request without a dataURL was answered 400 although a key is configured.
C5_Witness ==
    /\ pc = "done"
    /\ dataURL = ""
    /\ ~NoKey
    /\ response = ErrorResponse(400, "dataURL is required")
    /\ calls = <<>>

\* C6: an attempt whose client call returned but whose reply held no
\* recoverable JSON is not retried, whatever the reply or the parse error
\* says: the next invocation, if any, is of the next candidate.
C6_ParseFailureNotRetried ==
    \A i \in 1..Len(calls) : calls[i].stage = "parse-error" => NotInvokedAgain(i)

----------------------------------------------------------------------------
(* normalizeAnalysis on its own: the argument is drawn from loosely typed  *)
(* values of the shape a reply can parse to, and the function is applied.  *)

MaxItems == 2

IdleRequest ==
    /\ engine \in Engines
    /\ outcomes = Unused /\ endpoint = Unused /\ dataURL = Unused /\ env = Unused
    /\ pc = Unused /\ candidates = Unused /\ ci = Unused /\ attempt = Unused
    /\ lastErr = Unused /\ calls = Unused /\ response = Unused

\* What a numeric field is given as
FieldSamples ==
    { JNum(Halves(100)), JNum(1), JNum(Halves(5)), JNum(0 - Halves(3)), JNull, JUndefined,
      JBool(TRUE), JStr("12"), JStr(""), JStr("abc"), JArr(<<>>), JObj(<<>>), JNaN, JInfinity }

MacroList == <<"protein_g", "carbs_g", "fat_g", "fiber_g", "sugar_g">>
MicroList == <<"sodium_mg", "potassium_mg", "calcium_mg", "iron_mg", "vitamin_a_mcg",
               "vitamin_c_mg", "cholesterol_mg">>

\* An object with every key of keys set to v
AllSet(keys, v) == JObj([i \in 1..Len(keys) |-> P(keys[i], v)])

\* An item whose numeric fields are all given as v
ItemWith(v) ==
    JObj(<<P("label", JStr("nasi goreng")), P("confidence", v), P("serving_est_g", v),
           P("bbox_norm", AllSet(<<"x", "y", "w", "h">>, v)),
           P("nutrition",
             JObj(<<P("calories_kcal", v), P("macros", AllSet(MacroList, v)),
                    P("micros", AllSet(MicroList, v)),
                    P("allergens", JArr(<<JStr("egg")>>))>>))>>)

ItemSamples == {ItemWith(v) : v \in FieldSamples} \cup {JNull, JStr("telur"), JObj(<<>>)}

TotalsWith(v) ==
    JObj(<<P("serving_total_g", v), P("calories_kcal", v), P("macros", AllSet(MacroList, v)),
           P("micros", AllSet(MicroList, v))>>)

TotalsSamples ==
    { JUndefined, JNull, TotalsWith(JNum(Halves(7))), TotalsWith(JNull),
      JObj(<<P("calories_kcal", JStr("abc")), P("allergens", JArr(<<JStr("nuts"), JNum(2)>>))>>) }

MetaWith(width, height, orientation) ==
    JObj(<<P("width", width), P("height", height), P("orientation", orientation)>>)

MetaSamples ==
    { JUndefined,
      MetaWith(JNum(Halves(800)), JNum(Halves(600)), JUndefined),
      MetaWith(JNum(3), JNum(0 - Halves(2)), JStr("portrait")),
      MetaWith(JNull, JStr("600"), JStr("diagonal")) }

RawWith(meta, composition, totals) ==
    JObj(<<P("image_meta", meta), P("composition", JArr(composition)), P("totals", totals),
           P("notes", JStr("ok"))>>)

RawInputs ==
    {JNull, JUndefined, JObj(<<>>), JStr("nasi"), JNum(Halves(5)), JArr(<<>>),
     JObj(<<P("composition", JStr("none")), P("notes", JNum(2))>>)}
    \cup {RawWith(meta, composition, totals) :
            meta \in MetaSamples, totals \in TotalsSamples,
            composition \in UNION {[1..n -> ItemSamples] : n \in 0..MaxItems}}

InitNorm ==
    /\ IdleRequest
    /\ engine = "quoting"
    /\ raw \in RawInputs
    /\ normalized = Unused
    /\ phase = "input"
    /\ text = Unused /\ extracted = Unused

\* const normalized = normalizeAnalysis(json)
Normalize ==
    /\ phase = "input"
    /\ normalized' = normalizeAnalysis(raw)
    /\ phase' = "output"
    /\ UNCHANGED <<engine, reqVars, text, extracted, raw>>

SpecNorm == InitNorm /\ [][Normalize]_vars

----------------------------------------------------------------------------
(* extractJSON on its own: the text is put together from pieces of a       *)
(* reply, and the function is applied.                                     *)

MaxPieces == 3

Pieces == {"{\"a\":1}", "{", "}", "~~~json\n", "~~~", "hi ", "1"}

RECURSIVE Concat(_, _)
Concat(seq, i) == IF i > Len(seq) THEN "" ELSE seq[i] \o Concat(seq, i + 1)

Texts == {Concat(seq, 1) : seq \in UNION {[1..n -> Pieces] : n \in 0..MaxPieces}}

InitExtract ==
    /\ IdleRequest
    /\ text \in Texts
    /\ extracted = Unused
    /\ phase = "input"
    /\ raw = Unused /\ normalized = Unused

\* const json = extractJSON(raw)
Extract ==
    /\ phase = "input"
    /\ extracted' = extractJSON(text, engine)
    /\ phase' = "output"
    /\ UNCHANGED <<engine, reqVars, text, raw, normalized>>

SpecExtract == InitExtract /\ [][Extract]_vars

----------------------------------------------------------------------------
(* Properties of normalizeAnalysis *)

\* A string that converts to a finite number ("" is none)
NumericString(v) == v.t = "string" /\ Trim(v.s) # "" /\ IsFinite(StringToNumber(v.s))

\* What a numeric field is to be, by its input and its default
FieldOf(given, default) ==
    IF IsFinite(given) THEN given
    ELSE IF NumericString(given) THEN StringToNumber(given.s)
    ELSE default

RawItem(i) == CompositionOf(OptGet(raw, "composition"))[i]
RawMeta == OptGet(raw, "image_meta")

NutritionAsGiven(given, out) ==
    /\ out.calories_kcal = FieldOf(OptGet(given, "calories_kcal"), Zero)
    /\ \A k \in MacroKeys : out.macros[k] = FieldOf(OptGet(OptGet(given, "macros"), k), Zero)
    /\ \A k \in MicroKeys : out.micros[k] = FieldOf(OptGet(OptGet(given, "micros"), k), Zero)

ItemAsGiven(given, out) ==
    /\ out.confidence = FieldOf(OptGet(given, "confidence"), DefaultConfidence)
    /\ out.serving_est_g = FieldOf(OptGet(given, "serving_est_g"), Zero)
    /\ \A k \in {"x", "y", "w", "h"} :
          out.bbox_norm[k] = FieldOf(OptGet(OptGet(given, "bbox_norm"), k), Zero)
    /\ NutritionAsGiven(OptGet(given, "nutrition"), out.nutrition)

\* C7: every numeric field normalizeAnalysis writes is its input when that is
\* a finite number or a string that converts to one, and otherwise (missing,
\* null, boolean, empty string, array, object, NaN, Infinity) its default:
\* 0.5 for an item's confidence, 0 for width, height, serving_est_g, the
\* bbox_norm components and the item's nutrition fields.
C7_NumericFields ==
    phase = "output" =>
        /\ normalized.image_meta.width = FieldOf(OptGet(RawMeta, "width"), Zero)
        /\ normalized.image_meta.height = FieldOf(OptGet(RawMeta, "height"), Zero)
        /\ \A i \in 1..Len(normalized.composition) :
              ItemAsGiven(RawItem(i), normalized.composition[i])

RECURSIVE SumOfFirst(_, _)
\* The sum of the first n of numbers
SumOfFirst(numbers, n) ==
    IF n = 0 THEN Zero ELSE AddNum(SumOfFirst(numbers, n - 1), numbers[n])

\* What a field of totals is to be, by the value supplied and the items' fields
TotalOf(given, fields) == IF IsFinite(given) THEN given ELSE SumOfFirst(fields, Len(fields))

\* C8: every numeric field of totals is the value supplied for it when that is
\* a finite number, and otherwise (no totals, or the field missing, null or
\* not a number) the sum of the field over the normalized items.
C8_Totals ==
    phase = "output" =>
        /\ normalized.totals.serving_total_g =
              TotalOf(OptGet(OptGet(raw, "totals"), "serving_total_g"),
                      Servings(normalized.composition))
        /\ normalized.totals.calories_kcal =
              TotalOf(OptGet(OptGet(raw, "totals"), "calories_kcal"),
                      Calories(normalized.composition))
        /\ \A k \in MacroKeys :
              normalized.totals.macros[k] =
                  TotalOf(OptGet(OptGet(OptGet(raw, "totals"), "macros"), k),
                          Macros(normalized.composition, k))
        /\ \A k \in MicroKeys :
              normalized.totals.micros[k] =
                  TotalOf(OptGet(OptGet(OptGet(raw, "totals"), "micros"), k),
                          Micros(normalized.composition, k))

InUnitInterval(v) == v.t = "number" /\ 0 <= v.n /\ v.n <= Halves(1)
NonNegative(v) == v.t = "number" /\ v.n >= 0
NonNegativeInteger(v) == NonNegative(v) /\ v.n % Halves(1) = 0

\* C9: normalizeAnalysis fails on no input, and its result keeps the data
\* model's ranges: an item's confidence is within 0..1, its serving_est_g is
\* not negative, its bbox_norm components are within [0,1], image_meta's
\* width and height are integers that are not negative, and the orientation
\* is portrait, landscape or square.
C9_Ranges ==
    phase = "output" =>
        /\ normalized.image_meta.orientation \in Orientations
        /\ NonNegativeInteger(normalized.image_meta.width)
        /\ NonNegativeInteger(normalized.image_meta.height)
        /\ \A i \in 1..Len(normalized.composition) :
              /\ InUnitInterval(normalized.composition[i].confidence)
              /\ NonNegative(normalized.composition[i].serving_est_g)
              /\ \A k \in {"x", "y", "w", "h"} :
                    InUnitInterval(normalized.composition[i].bbox_norm[k])

----------------------------------------------------------------------------
(* Properties of extractJSON *)

Opening(str) == {i \in 1..Len(str) : Ch(str, i) = "{"}
Closing(str) == {i \in 1..Len(str) : Ch(str, i) = "}"}

\* str has a "{" and, after the first one, a "}"
HasBraces(str) == \E i \in Opening(str) : \E j \in Closing(str) : i < j

\* str from its first "{" to its last "}"
Braced(str) ==
    Sub(str, CHOOSE i \in Opening(str) : \A k \in Opening(str) : i <= k,
             CHOOSE j \in Closing(str) : \A k \in Closing(str) : k <= j)

Parses(str) == JSONParse(str, engine).ok

\* C10, as amended: the first of the three steps that parses gives the result
\* (the whole text; the text without its fence markers, trimmed; that text
\* from its first "{" to its last "}" when there is a "}" after the first
\* "{").  When none parses, the error is the SyntaxError of the third step's
\* JSON.parse if the text has such braces, and "No JSON found in response"
\* only if it has not.
C10_StepsInOrder ==
    phase = "output" =>
        IF Parses(text) THEN extracted = JSONParse(text, engine)
        ELSE IF Parses(CleanedText(text)) THEN extracted = JSONParse(CleanedText(text), engine)
        ELSE IF HasBraces(CleanedText(text))
        THEN /\ extracted = JSONParse(Braced(CleanedText(text)), engine)
             /\ (~Parses(Braced(CleanedText(text)))) => extracted.err.name = "SyntaxError"
        ELSE extracted = Threw(NoJsonFound)

\* No step parsed a text with braces, and the SyntaxError came out.
C10_Witness ==
    /\ phase = "output"
    /\ ~Parses(text)
    /\ ~Parses(CleanedText(text))
    /\ HasBraces(CleanedText(text))
    /\ ~extracted.ok
    /\ extracted.err.name = "SyntaxError"
    /\ extracted.err # NoJsonFound

\* C10: the first of the three steps that parses gives the result, and
\* whenever none parses, also when the text from the first "{" to the last
\* "}" is there and is not valid JSON, the error is "No JSON found in
\* response".
C10_NoJsonFoundWheneverAllFail ==
    phase = "output" =>
        IF Parses(text) THEN extracted = JSONParse(text, engine)
        ELSE IF Parses(CleanedText(text)) THEN extracted = JSONParse(CleanedText(text), engine)
        ELSE IF HasBraces(CleanedText(text)) /\ Parses(Braced(CleanedText(text)))
        THEN extracted = JSONParse(Braced(CleanedText(text)), engine)
        ELSE extracted = Threw(NoJsonFound)

====
